---- MODULE Spec2Model ----
(***************************************************************************)
(* A model of src2markdown.py: the directory aggregation pipeline          *)
(* (aggregate_directory -> _build_tree -> _assign_headings ->              *)
(* _render_document -> write) over a small explicit filesystem.            *)
(*                                                                         *)
(* Text is modelled by TLA+ strings, taken apart character by character    *)
(* with SubSeq; a path is the sequence of its names below the scan root;   *)
(* an optional value (Python's None or a value) is the empty sequence or   *)
(* a one-element sequence.                                                 *)
(***************************************************************************)
EXTENDS Integers, Sequences, FiniteSets, TLC

(***************************************************************************)
(* Characters and strings                                                  *)
(***************************************************************************)

\* The characters the model's names and texts are made of, each range in code
\* point order, and the code point each range starts at.
Digits == "0123456789"
UpperCase == "ABCDEFGHIJKLMNOPQRSTUVWXYZ"
LowerCase == "abcdefghijklmnopqrstuvwxyz"
Punctuation == <<"\n", " ", "#", "-", ".", "/", "_">>
PunctuationCode == <<10, 32, 35, 45, 46, 47, 95>>

\* The characters of a string, as a set.
Chars(s) == {SubSeq(s, i, i) : i \in 1..Len(s)}
DigitChars == Chars(Digits)
UpperChars == Chars(UpperCase)
LowerChars == Chars(LowerCase)

IndexIn(s, c) == CHOOSE i \in 1..Len(s) : SubSeq(s, i, i) = c

\* ord() of a one-character string.
Ord(c) ==
  IF c \in DigitChars THEN 47 + IndexIn(Digits, c)
  ELSE IF c \in UpperChars THEN 64 + IndexIn(UpperCase, c)
  ELSE IF c \in LowerChars THEN 96 + IndexIn(LowerCase, c)
  ELSE PunctuationCode[CHOOSE i \in 1..Len(Punctuation) : Punctuation[i] = c]

CharAt(s, i) == SubSeq(s, i, i)

\* str.lower() on the upper-case letters.
ToLower == [c \in UpperChars |-> CharAt(LowerCase, IndexIn(UpperCase, c))]

\* \w of the re module on these characters: letters, digits, underscore.
WordChars == DigitChars \cup UpperChars \cup LowerChars \cup {"_"}

\* The characters that the class [^\w\- ] of _slugify does not match.
SlugChars == WordChars \cup {"-", " "}

\* \s of the re module, and what str.strip() removes, among these characters.
SpaceChars == {" ", "\n"}

RECURSIVE MapChars(_, _)
\* s with every character c in the domain of table replaced by table[c].
MapChars(table, s) ==
  IF s = "" THEN ""
  ELSE LET c == CharAt(s, 1)
       IN  (IF c \in DOMAIN table THEN table[c] ELSE c)
             \o MapChars(table, SubSeq(s, 2, Len(s)))

RECURSIVE KeepChars(_, _, _)
\* s with every character outside the set keep replaced by the string other.
KeepChars(s, keep, other) ==
  IF s = "" THEN ""
  ELSE LET c == CharAt(s, 1)
       IN  (IF c \in keep THEN c ELSE other) \o KeepChars(SubSeq(s, 2, Len(s)), keep, other)

\* str.lower()
Lower(s) == MapChars(ToLower, s)

\* str.replace(old, new) for a one-character old.
Replace(s, old, new) == MapChars([c \in {old} |-> new], s)

RECURSIVE LStrip(_, _)
\* s without its leading characters that are in the set drop.
LStrip(s, drop) ==
  IF s # "" /\ CharAt(s, 1) \in drop THEN LStrip(SubSeq(s, 2, Len(s)), drop) ELSE s

RECURSIVE RStrip(_, _)
RStrip(s, drop) ==
  IF s # "" /\ CharAt(s, Len(s)) \in drop THEN RStrip(SubSeq(s, 1, Len(s) - 1), drop) ELSE s

Strip(s, drop) == LStrip(RStrip(s, drop), drop)

RECURSIVE CollapseRuns(_, _, _, _)
\* re.sub(r"[run]{min,}", to, s): every maximal run of characters of the set
\* run that is at least min long becomes the string to.
CollapseRuns(s, run, min, to) ==
  IF s = "" THEN ""
  ELSE IF CharAt(s, 1) \notin run
       THEN CharAt(s, 1) \o CollapseRuns(SubSeq(s, 2, Len(s)), run, min, to)
       ELSE LET rest == LStrip(s, run)
                n    == Len(s) - Len(rest)
            IN  (IF n >= min THEN to ELSE SubSeq(s, 1, n))
                  \o CollapseRuns(rest, run, min, to)

RECURSIVE IntToStr(_)
\* str() of a natural number.
IntToStr(n) ==
  IF n < 10 THEN SubSeq(Digits, n + 1, n + 1)
  ELSE IntToStr(n \div 10) \o SubSeq(Digits, (n % 10) + 1, (n % 10) + 1)

RECURSIVE Join(_, _)
\* sep.join(parts) for a sequence of strings.
Join(sep, parts) ==
  IF parts = <<>> THEN ""
  ELSE IF Len(parts) = 1 THEN parts[1]
  ELSE parts[1] \o sep \o Join(sep, Tail(parts))

\* a < b in Python's string order (by code point, a prefix first).
RECURSIVE StrLess(_, _)
StrLess(a, b) ==
  IF b = "" THEN FALSE
  ELSE IF a = "" THEN TRUE
  ELSE IF CharAt(a, 1) # CharAt(b, 1) THEN Ord(CharAt(a, 1)) < Ord(CharAt(b, 1))
  ELSE StrLess(SubSeq(a, 2, Len(a)), SubSeq(b, 2, Len(b)))

(***************************************************************************)
(* _slugify and AnchorRegistry                                             *)
(***************************************************************************)

\* A slug in which a character that is neither a word character, a hyphen
\* nor a space becomes a hyphen instead of being dropped.
SlugifyHyphenating(text) ==
  LET s1 == Lower(Strip(text, SpaceChars))
      s2 == Replace(s1, "/", " ")
      s3 == KeepChars(s2, SlugChars, "-")
      s4 == Replace(s3, "_", " ")
      s5 == CollapseRuns(s4, SpaceChars, 1, "-")
      s6 == CollapseRuns(s5, {"-"}, 2, "-")
  IN  Strip(s6, {"-"})

_slugify(text) ==
  LET s1 == Lower(Strip(text, SpaceChars))
      s2 == Replace(s1, "/", " ")
      s3 == KeepChars(s2, SlugChars, "")
      s4 == Replace(s3, "_", " ")
      s5 == CollapseRuns(s4, SpaceChars, 1, "-")
      s6 == CollapseRuns(s5, {"-"}, 2, "-")
  IN  Strip(s6, {"-"})

\* dict.get(slug, 0) on the registry's _counts.
CountOf(counts, slug) == IF slug \in DOMAIN counts THEN counts[slug] ELSE 0

\* AnchorRegistry.register: the anchor returned and the registry afterwards.
register(counts, heading_text) ==
  LET slug  == _slugify(heading_text)
      count == CountOf(counts, slug)
      final_slug == IF count = 0 THEN slug ELSE slug \o "-" \o IntToStr(count)
  IN  [anchor |-> final_slug,
       counts |-> [s \in DOMAIN counts \cup {slug} |->
                     IF s = slug THEN count + 1 ELSE counts[s]]]

(***************************************************************************)
(* Optional values, paths and the filesystem                               *)
(***************************************************************************)

None == <<>>
Some(v) == <<v>>

\* Python's truth value of an optional string: None and "" are false.
Truthy(opt) == opt # None /\ opt[1] # ""

\* A path is the sequence of its names below the scan root (the resolved
\* input_dir, <<>>); a path outside the root starts with "..".
Parent(p) == SubSeq(p, 1, Len(p) - 1)

\* The name of the scan root, input_dir.name.
RootName == "proj"

\* Path.name
Name(p) == IF p = <<>> THEN RootName ELSE p[Len(p)]

\* Path.as_posix() of a path relative to the root.
as_posix(p) == Join("/", p)

\* Path.suffix: from the last dot of the name on, when that dot is neither the
\* first nor the last character.
Suffix(name) ==
  LET dots == {i \in 1..Len(name) : CharAt(name, i) = "."}
  IN  IF dots = {} THEN ""
      ELSE LET i == CHOOSE d \in dots : \A e \in dots : e <= d
           IN  IF i > 1 /\ i < Len(name) THEN SubSeq(name, i, Len(name)) ELSE ""

StartsWith(s, prefix) == Len(s) >= Len(prefix) /\ SubSeq(s, 1, Len(prefix)) = prefix

\* The filesystem fs is a record:
\*   dirs        the directories (paths)
\*   files       the regular files: path -> raw content
\*   links       the symbolic links: path -> the resolved path each points to
\*   unlistable  the directories whose listing raises PermissionError
\*   unreadable  the files whose reading raises PermissionError
\* and, while a call lists directories,
\*   scan_order  directory -> its names in the order the system yields them

RECURSIVE resolve(_, _)
\* Path.resolve(): the path with every symbolic link on it followed.
resolve(fs, p) ==
  IF p = <<>> THEN <<>>
  ELSE LET q == Append(resolve(fs, Parent(p)), Name(p))
       IN  IF q \in DOMAIN fs.links THEN fs.links[q] ELSE q

is_symlink(fs, p) ==
  p # <<>> /\ Append(resolve(fs, Parent(p)), Name(p)) \in DOMAIN fs.links
is_dir(fs, p) == resolve(fs, p) \in fs.dirs
is_file(fs, p) == resolve(fs, p) \in DOMAIN fs.files
exists(fs, p) == is_dir(fs, p) \/ is_file(fs, p)

\* The names in the directory d (a resolved path).
NamesIn(fs, d) ==
  {Name(q) : q \in {r \in fs.dirs \cup DOMAIN fs.files \cup DOMAIN fs.links :
                      r # <<>> /\ Parent(r) = d /\ Name(r) # ".."}}

RECURSIVE Enumerate(_)
\* The orders in which the system may yield the names of a directory: the
\* order is arbitrary, so every sequence that lists each name once.
Enumerate(names) ==
  IF names = {} THEN {<<>>}
  ELSE UNION {{<<n>> \o rest : rest \in Enumerate(names \ {n})} : n \in names}

\* The directories a call may list: all but the parent of the root.
ScanDirs(fs) == fs.dirs \ {<<"..">>}

RECURSIVE OrdersOver(_, _)
\* The ways to give each directory of the set dirs an order of its names.
OrdersOver(fs, dirs) ==
  IF dirs = {} THEN {[d \in {} |-> <<>>]}
  ELSE LET d == CHOOSE x \in dirs : TRUE
       IN  {[x \in DOMAIN rest \cup {d} |-> IF x = d THEN order ELSE rest[x]] :
              rest \in OrdersOver(fs, dirs \ {d}), order \in Enumerate(NamesIn(fs, d))}

\* What the directory listings of one call may yield.
ScanOrders(fs) == OrdersOver(fs, ScanDirs(fs))

\* The filesystem as a call sees it whose listings yield the orders given.
Listing(fs, orders) ==
  [dirs |-> fs.dirs, files |-> fs.files, links |-> fs.links,
   unlistable |-> fs.unlistable, unreadable |-> fs.unreadable, scan_order |-> orders]

\* Path.iterdir(): the entries of the directory p in the order the system
\* yields them, or a PermissionError.
iterdir(fs, p) ==
  IF resolve(fs, p) \in fs.unlistable THEN [error |-> "PermissionError", entries |-> <<>>]
  ELSE LET names == fs.scan_order[resolve(fs, p)]
       IN  [error |-> "", entries |-> [i \in 1..Len(names) |-> Append(p, names[i])]]

\* The sort key of _build_tree: lambda p: p.name.lower()
SortKey(p) == Lower(Name(p))

RECURSIVE Insert(_, _)
\* e inserted into the sorted sequence after every element whose key is not
\* greater than e's (sorted() is stable).
Insert(sorted, e) ==
  IF sorted = <<>> THEN <<e>>
  ELSE IF StrLess(SortKey(e), SortKey(sorted[1])) THEN <<e>> \o sorted
  ELSE <<sorted[1]>> \o Insert(Tail(sorted), e)

RECURSIVE SortedByKey(_)
\* sorted(entries, key=lambda p: p.name.lower())
SortedByKey(entries) ==
  IF entries = <<>> THEN <<>>
  ELSE Insert(SortedByKey(SubSeq(entries, 1, Len(entries) - 1)), entries[Len(entries)])

RECURSIVE Flatten(_)
\* The concatenation of a sequence of sequences.
Flatten(seqs) == IF seqs = <<>> THEN <<>> ELSE seqs[1] \o Flatten(Tail(seqs))

(***************************************************************************)
(* Module constants                                                        *)
(***************************************************************************)

DEFAULT_SOURCE_EXTENSIONS ==
  {".c", ".cc", ".cpp", ".cs", ".csx", ".cxx", ".go", ".h", ".hh", ".hpp", ".hs",
   ".java", ".jl", ".js", ".json", ".jsx", ".kt", ".m", ".mm", ".php", ".pl",
   ".ps1", ".py", ".r", ".rb", ".rs", ".scala", ".sh", ".sql", ".swift", ".toml",
   ".ts", ".tsx", ".vue", ".yaml", ".yml", ".zig"}

DEFAULT_IGNORED_DIRS ==
  {".git", ".hg", ".svn", ".tox", ".venv", ".idea", ".vscode", "__pycache__",
   "node_modules", "dist", "build", "target", "venv"}

DEFAULT_IGNORED_FILES == {".DS_Store"}

\* LANGUAGE_HINTS.get(suffix, "")
LanguageHint(suffix) ==
  CASE suffix \in {".c", ".h"} -> "c"
    [] suffix \in {".cc", ".cpp", ".cxx", ".hh", ".hpp"} -> "cpp"
    [] suffix \in {".cs", ".csx"} -> "csharp"
    [] suffix = ".go" -> "go"
    [] suffix = ".hs" -> "haskell"
    [] suffix = ".java" -> "java"
    [] suffix = ".jl" -> "julia"
    [] suffix = ".js" -> "javascript"
    [] suffix = ".json" -> "json"
    [] suffix = ".jsx" -> "jsx"
    [] suffix = ".kt" -> "kotlin"
    [] suffix \in {".m", ".mm"} -> "objectivec"
    [] suffix = ".php" -> "php"
    [] suffix = ".pl" -> "perl"
    [] suffix = ".ps1" -> "powershell"
    [] suffix = ".py" -> "python"
    [] suffix = ".r" -> "r"
    [] suffix = ".rb" -> "ruby"
    [] suffix = ".rs" -> "rust"
    [] suffix = ".scala" -> "scala"
    [] suffix = ".sh" -> "bash"
    [] suffix = ".sql" -> "sql"
    [] suffix = ".swift" -> "swift"
    [] suffix = ".toml" -> "toml"
    [] suffix = ".ts" -> "typescript"
    [] suffix = ".tsx" -> "tsx"
    [] suffix = ".vue" -> "vue"
    [] suffix \in {".yaml", ".yml"} -> "yaml"
    [] suffix = ".zig" -> "zig"
    [] OTHER -> ""

TOP_ANCHOR == "document-top"
TOC_ANCHOR == "table-of-contents"

\* Two characters of the document have no place in a TLA+ string: the backquote
\* of a code fence is written ' and the bullet of the back link is written *.
FENCE == "'''"
BACK_LINK ==
  "[Back to Top](#" \o TOP_ANCHOR \o ") * [Back to TOC](#" \o TOC_ANCHOR \o ")"

\* <a id="anchor"></a>
AnchorMarker(anchor) == "<a id=\"" \o anchor \o "\"></a>"

(***************************************************************************)
(* _build_tree                                                             *)
(***************************************************************************)

\* TreeNode(path, is_dir, depth, children, anchor, heading_text, is_markdown)
TreeNode(path, isdir, depth, children, is_markdown) ==
  [path |-> path, is_dir |-> isdir, depth |-> depth, children |-> children,
   anchor |-> None, heading_text |-> None, is_markdown |-> is_markdown]

\* ignore_spec.match_file(text): the pattern predicate is the set of the texts
\* it matches.
match_file(ignore_spec, text) == text \in ignore_spec[1]

\* resolved == output_path
IsOutputPath(fs, opts, root) == resolve(fs, root) = opts.output_path

\* Markdown files are included only when the allow-list names them.
ListedSuffix(suffix, extensions) == suffix \in extensions

\* suffix == ".md" or suffix in extensions
IncludedSuffix(suffix, extensions) == suffix = ".md" \/ suffix \in extensions

\* entry.name in ignored or entry.name.startswith(".")
SkippedName(name, ignored) == name \in ignored \/ StartsWith(name, ".")

\* A directory node is kept whatever it holds.
NoChildrenNever(children) == FALSE

\* not children
NoChildren(children) == children = <<>>

RECURSIVE _build_tree(_, _, _, _)
\* The node built for the entry root, or None. opts holds the keyword arguments
\* that aggregate_directory passes down unchanged.
_build_tree(fs, opts, root, depth) ==
  IF IsOutputPath(fs, opts, root) THEN None
  ELSE IF is_symlink(fs, root) /\ ~opts.follow_symlinks THEN None
  ELSE IF ~exists(fs, root) THEN None
  ELSE IF /\ opts.ignore_spec # None
          /\ root # <<>>
          /\ \/ match_file(opts.ignore_spec, as_posix(root))
             \/ is_dir(fs, root) /\ match_file(opts.ignore_spec, as_posix(root) \o "/")
       THEN None
  ELSE IF is_file(fs, root)
       THEN LET suffix == Lower(Suffix(Name(root)))
            IN  IF IncludedSuffix(suffix, opts.extensions)
                THEN Some(TreeNode(root, FALSE, depth, <<>>, suffix = ".md"))
                ELSE None
  ELSE LET listing == iterdir(fs, root)
       IN  IF listing.error # "" THEN None
           ELSE LET entries == SortedByKey(listing.entries)
                    Child(entry) ==
                      IF is_dir(fs, entry)
                      THEN IF SkippedName(Name(entry), opts.ignored_dirs)
                           THEN None
                           ELSE _build_tree(fs, opts, entry, depth + 1)
                      ELSE IF is_file(fs, entry)
                      THEN IF SkippedName(Name(entry), opts.ignored_files)
                           THEN None
                           ELSE _build_tree(fs, opts, entry, depth + 1)
                      ELSE None
                    children == Flatten([i \in 1..Len(entries) |-> Child(entries[i])])
                IN  IF NoChildren(children) THEN None
                    ELSE Some(TreeNode(root, TRUE, depth, children, FALSE))

(***************************************************************************)
(* _assign_headings                                                        *)
(***************************************************************************)

RECURSIVE _assign_headings(_, _)
RECURSIVE AssignChildren(_, _, _)

RECURSIVE AssignChildrenBackwards(_, _, _)
\* The loop over node.children taken from the last child to the first.
AssignChildrenBackwards(children, i, acc) ==
  IF i > Len(children) THEN acc
  ELSE LET r == _assign_headings(children[Len(children) + 1 - i], acc.counts)
       IN  AssignChildrenBackwards(children, i + 1,
             [nodes |-> <<r.node>> \o acc.nodes, counts |-> r.counts,
              calls |-> acc.calls \o r.calls])

\* The loop over node.children: the children with headings assigned, the
\* registry afterwards, and the register calls made, in order.
AssignChildren(children, i, acc) ==
  IF i > Len(children) THEN acc
  ELSE LET r == _assign_headings(children[i], acc.counts)
       IN  AssignChildren(children, i + 1,
             [nodes |-> Append(acc.nodes, r.node), counts |-> r.counts,
              calls |-> acc.calls \o r.calls])

\* node with heading_text and anchor set on it and below it, the registry
\* afterwards, and the register calls made, in order.
_assign_headings(node, counts) ==
  LET relative == as_posix(node.path)
      heading_text == IF node.is_dir THEN relative \o "/" ELSE relative
      reg == IF node.depth > 0 THEN register(counts, heading_text)
             ELSE [anchor |-> "", counts |-> counts]
      own == IF node.depth > 0
             THEN <<[path |-> node.path, heading_text |-> heading_text, anchor |-> reg.anchor]>>
             ELSE <<>>
      below == AssignChildren(node.children, 1,
                 [nodes |-> <<>>, counts |-> reg.counts, calls |-> <<>>])
  IN  [node |-> [node EXCEPT
                   !.heading_text = IF node.depth > 0 THEN Some(heading_text) ELSE @,
                   !.anchor = IF node.depth > 0 THEN Some(reg.anchor) ELSE @,
                   !.children = below.nodes],
       counts |-> below.counts,
       calls |-> own \o below.calls]

(***************************************************************************)
(* _build_toc, _render_node, _render_document                              *)
(***************************************************************************)

Max(a, b) == IF a >= b THEN a ELSE b
Min(a, b) == IF a <= b THEN a ELSE b

RECURSIVE Repeat(_, _)
\* s * n
Repeat(s, n) == IF n <= 0 THEN "" ELSE s \o Repeat(s, n - 1)

\* Lines 364-366: the bullet of one child, if it has an anchor and a heading.
TocBullet(child) ==
  IF Truthy(child.anchor) /\ Truthy(child.heading_text)
  THEN <<Repeat("  ", Max(child.depth - 1, 0)) \o "- [" \o child.heading_text[1]
           \o "](#" \o child.anchor[1] \o ")">>
  ELSE <<>>

RECURSIVE _build_toc(_)
_build_toc(node) ==
  LET Bullets(child) ==
        TocBullet(child) \o (IF child.is_dir THEN _build_toc(child) ELSE <<>>)
  IN  Flatten([i \in 1..Len(node.children) |-> Bullets(node.children[i])])

\* bytes.decode("utf-8", errors="replace"): in a raw content the character ~
\* stands for a byte that is not valid UTF-8, in a text ? for U+FFFD.
Decode(raw) == Replace(raw, "~", "?")

\* Path.read_text(encoding="utf-8", errors="replace") of the file at path.
read_text(fs, path) ==
  IF is_dir(fs, path) THEN [error |-> "IsADirectoryError", text |-> ""]
  ELSE IF ~is_file(fs, path) THEN [error |-> "FileNotFoundError", text |-> ""]
  ELSE IF resolve(fs, path) \in fs.unreadable THEN [error |-> "PermissionError", text |-> ""]
  ELSE [error |-> "", text |-> Decode(fs.files[resolve(fs, path)])]

\* The first error of a sequence of results, "" when there is none.
FirstError(results) ==
  LET bad == {i \in 1..Len(results) : results[i].error # ""}
  IN  IF bad = {} THEN "" ELSE results[CHOOSE i \in bad : \A j \in bad : i <= j].error

\* Lines 399-404: the heading line of a node and the anchor marker under it.
HeadingLines(node) ==
  LET level == Min(node.depth + 1, 6)
  IN  IF Truthy(node.heading_text) /\ Truthy(node.anchor)
      THEN <<Repeat("#", level) \o " " \o node.heading_text[1],
             AnchorMarker(node.anchor[1])>>
      ELSE IF Truthy(node.heading_text)
      THEN <<Repeat("#", level) \o " " \o node.heading_text[1]>>
      ELSE <<>>

RECURSIVE _render_node(_, _)
\* The lines of node's section, or the exception that reading a file raised.
_render_node(fs, node) ==
  LET lines == HeadingLines(node) \o <<"">>
      relative == as_posix(node.path)
  IN  IF node.is_dir
      THEN LET below == [i \in 1..Len(node.children) |-> _render_node(fs, node.children[i])]
           IN  [error |-> FirstError(below),
                lines |-> lines \o Flatten([i \in 1..Len(below) |-> below[i].lines])]
      ELSE LET read == read_text(fs, node.path)
               content == read.text
           IN  IF read.error # "" THEN [error |-> read.error, lines |-> <<>>]
               ELSE IF node.is_markdown
               THEN LET stripped == RStrip(content, {"\n"})
                    IN  [error |-> "",
                         lines |-> lines \o <<"<!-- Begin " \o relative \o " -->">>
                                     \o (IF stripped # "" THEN <<stripped>> ELSE <<>>)
                                     \o <<"<!-- End " \o relative \o " -->", BACK_LINK, "">>]
               ELSE LET language == LanguageHint(Lower(Suffix(Name(node.path))))
                    IN  [error |-> "",
                         lines |-> lines
                                     \o <<RStrip(FENCE \o language, SpaceChars),
                                          RStrip(content, {"\n"}),
                                          FENCE, BACK_LINK, "">>]

_render_document(fs, root_node, title) ==
  LET header == <<"# " \o title, AnchorMarker(TOP_ANCHOR), "">>
      toc_lines == _build_toc(root_node)
      toc == IF toc_lines # <<>>
             THEN <<"## Table of Contents", AnchorMarker(TOC_ANCHOR), "">> \o toc_lines \o <<"">>
             ELSE <<>>
      body == [i \in 1..Len(root_node.children) |-> _render_node(fs, root_node.children[i])]
  IN  [error |-> FirstError(body),
       lines |-> header \o toc \o Flatten([i \in 1..Len(body) |-> body[i].lines])]

(***************************************************************************)
(* The inputs of the model: filesystems and configurations                 *)
(***************************************************************************)

\* How many regular files a filesystem of the model holds below the root: a
\* plain one, and one that departs from it (by a link, a permission, a
\* directory without files) or is read with a non-default argument.
MaxFiles == 3
MaxVariantFiles == 2

\* The files a filesystem of the model is made of.
Universe ==
  {<<"a", "x.py">>, <<"a", "y.md">>, <<"a", "Notes.md">>, <<"b", "Notes.md">>,
   <<".git", "config">>, <<"node_modules", "lib.js">>,
   <<"a.md">>, <<"A.md">>, <<"amd-1", "f.py">>, <<"_", "f.py">>,
   <<"b", "c", "z.txt">>, <<"X.PY">>, <<".hid.py">>}

\* The files of the example of the specification: two included files in one
\* directory, a hidden directory and an ignored one.
ExampleFiles ==
  {<<"a", "x.py">>, <<"a", "y.md">>, <<".git", "config">>, <<"node_modules", "lib.js">>}

\* The files that a filesystem departing from the plain one is built from.
VariantUniverse ==
  {<<"a", "x.py">>, <<"a", "y.md">>, <<"b", "Notes.md">>, <<"b", "c", "z.txt">>,
   <<"a.md">>, <<"A.md">>, <<"X.PY">>}

\* The raw content of each file.
RawContent(p) ==
  CASE p = <<"a", "x.py">> -> "import os\n"
    [] p = <<"a", "y.md">> -> "# Y\n\ntext\n\n"
    [] p = <<"a.md">> -> ""
    [] p = <<"A.md">> -> "\n"
    [] p = <<"_", "f.py">> -> "s = '~'\n"
    [] p = <<"X.PY">> -> "print(1)"
    [] OTHER -> as_posix(p) \o "\n"

Prefixes(p) == {SubSeq(p, 1, k) : k \in 0..(Len(p) - 1)}

NoLinks == [p \in {} |-> <<>>]

\* The filesystem holding exactly the files F, each in its directories, the
\* root's parent "..", and nothing else.
PlainFs(F) ==
  [dirs |-> {<<>>, <<"..">>} \cup UNION {Prefixes(f) : f \in F},
   files |-> [f \in F |-> RawContent(f)],
   links |-> NoLinks,
   unlistable |-> {},
   unreadable |-> {}]

\* The defaults of aggregate_directory's keyword arguments, and the output
\* path main() derives from the input directory: its sibling <name>.md.
DefaultConfig ==
  [output_file |-> <<"..", RootName \o ".md">>,
   title |-> None,
   include_extensions |-> None,
   ignored_dirs |-> None,
   ignored_files |-> None,
   ignore_patterns |-> None,
   follow_symlinks |-> FALSE]

\* The departures from the plain filesystem and the default configuration.
Variants ==
  {[kind |-> "title"], [kind |-> "not_a_directory"],
   [kind |-> "missing_root"]}
  \cup {[kind |-> "output", path |-> p] :
          p \in {<<"out.md">>, <<"new", "out.md">>, <<"a", "out.md">>, <<"a", "y.md">>,
                 <<"a">>, <<>>, <<"a.md", "out.md">>, <<"a.md", "new", "out.md">>}}
  \cup {[kind |-> "ignore", matches |-> m] : m \in {{"a/"}, {"a"}, {"a/x.py"}, {"b/c/"}}}
  \cup {[kind |-> "extensions", given |-> e] : e \in {{"TXT"}, {".PY", "txt"}}}
  \cup {[kind |-> "ignored_names", dirs |-> n.d, files |-> n.f] :
          n \in {[d |-> {"a"}, f |-> {"x.py"}], [d |-> {"x.py"}, f |-> {"a"}]}}
  \cup {[kind |-> "link", path |-> l.p, target |-> l.t, follow |-> b] :
          l \in {[p |-> <<"ln.py">>, t |-> <<"..", "ext.py">>],
                 [p |-> <<"ld">>, t |-> <<"..", "lib">>],
                 [p |-> <<"dead.py">>, t |-> <<"..", "gone.py">>],
                 [p |-> <<"self.md">>, t |-> <<"out.md">>]},
          b \in BOOLEAN}
  \cup {[kind |-> "unlistable", path |-> d] :
          d \in {<<>>, <<"a">>, <<"b">>, <<"b", "c">>}}
  \cup {[kind |-> "unreadable", path |-> f] : f \in VariantUniverse}
  \cup {[kind |-> "mkdir", paths |-> d] : d \in {{<<"e">>}, {<<"e">>, <<"e", "f">>}}}

\* Whether the variant v applies to the filesystem of the files F.
Applies(v, F) ==
  CASE v.kind \in {"not_a_directory", "missing_root"} -> F = {}
    [] v.kind = "unlistable" -> v.path \in PlainFs(F).dirs
    [] v.kind = "unreadable" -> v.path \in F
    [] OTHER -> TRUE

\* The files outside the root that the links of the model point to.
Outside ==
  [dirs |-> {<<"..", "lib">>},
   files |-> [p \in {<<"..", "ext.py">>, <<"..", "lib", "m.py">>} |-> as_posix(p) \o "\n"]]

Merge(f, g) == [x \in DOMAIN f \cup DOMAIN g |-> IF x \in DOMAIN g THEN g[x] ELSE f[x]]

VariantFs(v, F) ==
  LET plain == PlainFs(F)
  IN  CASE v.kind = "not_a_directory" ->
             [plain EXCEPT !.dirs = {<<"..">>}, !.files = [p \in {<<>>} |-> "text\n"]]
        [] v.kind = "missing_root" -> [plain EXCEPT !.dirs = {<<"..">>}]
        [] v.kind = "link" ->
             [plain EXCEPT !.links = [p \in {v.path} |-> v.target],
                           !.dirs = @ \cup Outside.dirs,
                           !.files = Merge(@, Outside.files)]
        [] v.kind = "unlistable" -> [plain EXCEPT !.unlistable = {v.path}]
        [] v.kind = "unreadable" -> [plain EXCEPT !.unreadable = {v.path}]
        [] v.kind = "mkdir" -> [plain EXCEPT !.dirs = @ \cup v.paths]
        [] OTHER -> plain

VariantConfig(v) ==
  CASE v.kind = "title" -> [DefaultConfig EXCEPT !.title = Some("Docs")]
    [] v.kind = "output" -> [DefaultConfig EXCEPT !.output_file = v.path]
    [] v.kind = "ignore" -> [DefaultConfig EXCEPT !.ignore_patterns = Some(v.matches)]
    [] v.kind = "extensions" -> [DefaultConfig EXCEPT !.include_extensions = Some(v.given)]
    [] v.kind = "ignored_names" ->
         [DefaultConfig EXCEPT !.ignored_dirs = Some(v.dirs), !.ignored_files = Some(v.files)]
    [] v.kind = "link" ->
         [DefaultConfig EXCEPT !.follow_symlinks = v.follow,
                               !.output_file = IF v.path = <<"self.md">> THEN v.target ELSE @]
    [] OTHER -> DefaultConfig

(***************************************************************************)
(* aggregate_directory, step by step                                       *)
(***************************************************************************)

VARIABLES
  fs,             \* the filesystem
  cfg,            \* the arguments of aggregate_directory
  pc,             \* where the call is: "ready", "build", "assign", "render",
                  \*   "write", "returned" or "raised"
  opts,           \* the locals passed to _build_tree, None before they are set
  root_node,      \* the tree, None or Some(node)
  tree_built,     \* history: the tree as _build_tree returned it
  registry,       \* AnchorRegistry._counts
  title_text,
  content_lines,
  error,          \* the exception the call raised, "" when none
  second,         \* whether this is the second call on the same arguments
  vanished,       \* whether a file disappeared under a running call
  calls,          \* history: the register calls of this call, in order
  written,        \* history: the tree and the document of each call that wrote
  fs_at_call,     \* history: the filesystem when this call began
  trace           \* history: the steps this call has taken

vars == <<fs, cfg, pc, opts, root_node, tree_built, registry, title_text, content_lines, error,
          second, vanished, calls, written, fs_at_call, trace>>

NotADirectory == "ValueError: Input path is not a directory"
NoMatchingFiles == "ValueError: No matching files found"

Init ==
  /\ \/ \E F \in SUBSET Universe :
          /\ Cardinality(F) <= MaxFiles \/ F = ExampleFiles
          /\ fs = PlainFs(F)
          /\ cfg = DefaultConfig
     \/ \E F \in SUBSET VariantUniverse, v \in Variants :
          /\ Cardinality(F) <= MaxVariantFiles
          /\ Applies(v, F)
          /\ fs = VariantFs(v, F)
          /\ cfg = VariantConfig(v)
  /\ pc = "ready"
  /\ opts = None
  /\ root_node = None
  /\ tree_built = None
  /\ registry = <<>>
  /\ title_text = ""
  /\ content_lines = <<>>
  /\ error = ""
  /\ second = FALSE
  /\ vanished = FALSE
  /\ calls = <<>>
  /\ written = <<>>
  /\ fs_at_call = fs
  /\ trace = <<>>

\* ext.lower() if ext.startswith(".") else f".{ext.lower()}"
NormalizeExtension(ext) == IF StartsWith(ext, ".") THEN Lower(ext) ELSE "." \o Lower(ext)

\* The set comprehension of lines 162-164 over the extensions given.
NormalizedExtensions(given) == {NormalizeExtension(e) : e \in given}
NormalizedDefaults == NormalizedExtensions(DEFAULT_SOURCE_EXTENSIONS)

\* Python's truth value of an optional collection: None and the empty one are
\* false.
Falsy(opt) == opt = None \/ opt[1] = {}

\* x or default, for an optional collection
OrDefault(opt, default) == IF Falsy(opt) THEN default ELSE opt[1]

\* Any input path is taken for a directory.
AnyInput(f) == TRUE

\* not input_dir.is_dir()
InputIsDirectory(f) == is_dir(f, <<>>)

Raise(e) ==
  /\ pc' = "raised"
  /\ error' = e

\* Lines 156-177: the paths are resolved, the input is checked, the options get
\* their defaults.
Begin ==
  /\ pc = "ready"
  /\ fs_at_call' = fs
  /\ trace' = <<"Begin">>
  /\ IF ~InputIsDirectory(fs)
     THEN /\ Raise(NotADirectory)
          /\ UNCHANGED opts
     ELSE /\ pc' = "build"
          /\ opts' = Some(
               [extensions |-> IF Falsy(cfg.include_extensions)
                               THEN NormalizedDefaults
                               ELSE NormalizedExtensions(cfg.include_extensions[1]),
                ignored_dirs |-> DEFAULT_IGNORED_DIRS \cup OrDefault(cfg.ignored_dirs, {}),
                ignored_files |-> DEFAULT_IGNORED_FILES \cup OrDefault(cfg.ignored_files, {}),
                follow_symlinks |-> cfg.follow_symlinks,
                output_path |-> resolve(fs, cfg.output_file),
                ignore_spec |-> cfg.ignore_patterns])
          /\ UNCHANGED error
  /\ UNCHANGED <<fs, cfg, root_node, tree_built, registry, title_text, content_lines, second,
                 vanished, calls, written>>

\* root_node is None or not root_node.children
EmptyResult(node) == node = None \/ node[1].children = <<>>

\* Lines 179-192: the tree is built, the system yielding the names of each
\* directory in some order; an empty tree ends the call.
BuildTree ==
  /\ pc = "build"
  /\ trace' = Append(trace, "BuildTree")
  /\ \E orders \in ScanOrders(fs) :
       LET built == _build_tree(Listing(fs, orders), opts[1], <<>>, 0)
       IN  /\ root_node' = built
           /\ tree_built' = built
           /\ IF EmptyResult(built)
              THEN Raise(NoMatchingFiles)
              ELSE pc' = "assign" /\ UNCHANGED error
  /\ UNCHANGED <<fs, cfg, opts, registry, title_text, content_lines, second, vanished,
                 calls, written, fs_at_call>>

\* Lines 194-197: the title, a fresh registry, the headings.
AssignHeadings ==
  /\ pc = "assign"
  /\ trace' = Append(trace, "AssignHeadings")
  /\ title_text' = IF Truthy(cfg.title) THEN cfg.title[1] ELSE RootName \o " Source Archive"
  /\ LET assigned == _assign_headings(root_node[1], <<>>)
     IN  /\ root_node' = Some(assigned.node)
         /\ registry' = assigned.counts
         /\ calls' = assigned.calls
  /\ pc' = "render"
  /\ UNCHANGED <<fs, cfg, opts, tree_built, content_lines, error, second, vanished, written,
                 fs_at_call>>

\* Lines 199-203: the document is rendered; an exception of a read ends the call.
RenderDocument ==
  /\ pc = "render"
  /\ trace' = Append(trace, "RenderDocument")
  /\ LET rendered == _render_document(fs, root_node[1], title_text)
     IN  IF rendered.error # ""
         THEN Raise(rendered.error) /\ UNCHANGED content_lines
         ELSE /\ content_lines' = rendered.lines
              /\ pc' = "write"
              /\ UNCHANGED error
  /\ UNCHANGED <<fs, cfg, opts, root_node, tree_built, registry, title_text, second,
                 vanished, calls,
                 written, fs_at_call>>

\* output_file.parent.mkdir(parents=True, exist_ok=True), then
\* output_file.write_text(text): the filesystem afterwards, or the exception.
WriteFile(f, path, text) ==
  LET above == Prefixes(path)
  IN  IF Parent(path) \in DOMAIN f.files
      THEN [error |-> "FileExistsError", fs |-> f]
      ELSE IF \E d \in above : d \in DOMAIN f.files
      THEN [error |-> "NotADirectoryError", fs |-> f]
      ELSE IF path \in f.dirs
      THEN [error |-> "IsADirectoryError", fs |-> [f EXCEPT !.dirs = @ \cup above]]
      ELSE [error |-> "",
            fs |-> [f EXCEPT !.dirs = @ \cup above,
                             !.files = Merge(@, [p \in {path} |-> text])]]

\* Lines 205-206: the document is written.
WriteOutput ==
  /\ pc = "write"
  /\ trace' = Append(trace, "WriteOutput")
  /\ LET text == Join("\n", content_lines) \o "\n"
         out == WriteFile(fs, opts[1].output_path, text)
     IN  /\ fs' = out.fs
         /\ IF out.error # ""
            THEN Raise(out.error) /\ UNCHANGED written
            ELSE /\ pc' = "returned"
                 /\ written' = Append(written, [root_node |-> root_node, document |-> text])
                 /\ UNCHANGED error
  /\ UNCHANGED <<cfg, opts, root_node, tree_built, registry, title_text, content_lines, second,
                 vanished, calls, fs_at_call>>

\* The same call again, on the filesystem the first one left, which nothing
\* else has modified.
CallAgain ==
  /\ pc \in {"returned", "raised"}
  /\ ~second
  /\ ~vanished
  /\ second' = TRUE
  /\ pc' = "ready"
  /\ opts' = None
  /\ root_node' = None
  /\ tree_built' = None
  /\ registry' = <<>>
  /\ title_text' = ""
  /\ content_lines' = <<>>
  /\ error' = ""
  /\ calls' = <<>>
  /\ trace' = <<>>
  /\ UNCHANGED <<fs, cfg, vanished, written, fs_at_call>>

RECURSIVE Leaves(_)
\* The paths of the file nodes of a tree.
Leaves(node) ==
  IF ~node.is_dir THEN {node.path}
  ELSE UNION {Leaves(node.children[i]) : i \in 1..Len(node.children)}

\* Another process removes a file of the tree between the tree's construction
\* and its rendering.
Vanish ==
  /\ pc = "render"
  /\ ~second
  /\ ~vanished
  /\ \E f \in Leaves(root_node[1]) :
       /\ f \in DOMAIN fs.files
       /\ fs' = [fs EXCEPT !.files = [p \in DOMAIN fs.files \ {f} |-> fs.files[p]]]
  /\ vanished' = TRUE
  /\ UNCHANGED <<cfg, pc, opts, root_node, tree_built, registry, title_text, content_lines, error,
                 second, calls, written, fs_at_call, trace>>

Next ==
  \/ Begin
  \/ BuildTree
  \/ AssignHeadings
  \/ RenderDocument
  \/ WriteOutput
  \/ CallAgain
  \/ Vanish

Spec == Init /\ [][Next]_vars

(***************************************************************************)
(* Properties of the tree and of the headings                              *)
(***************************************************************************)

\* Whether the running call has taken the step.
Done(step) == \E i \in DOMAIN trace : trace[i] = step

RECURSIVE Nodes(_)
\* The nodes below a node in pre-order, the node itself left out.
Nodes(node) ==
  Flatten([i \in 1..Len(node.children) |->
             <<node.children[i]>> \o Nodes(node.children[i])])

\* The non-root nodes of the tree of the running call.
TreeNodes == IF root_node = None THEN <<>> ELSE Nodes(root_node[1])

NodePaths == {TreeNodes[i].path : i \in DOMAIN TreeNodes}

\* The files the filesystem of the call held below the root when it began.
SourceFiles == {p \in DOMAIN fs_at_call.files : p = <<>> \/ p[1] # ".."}

\* C1: once _assign_headings has run, the anchors of the non-root nodes are
\* pairwise distinct, whatever heading texts were registered.
C1_AnchorsPairwiseDistinct ==
  Done("AssignHeadings") =>
    \A i, j \in DOMAIN TreeNodes :
      i # j => TreeNodes[i].anchor # TreeNodes[j].anchor

\* C2: the bullets of the table of contents and the headings of the body
\* correspond one to one: every non-root node has one bullet and one heading
\* line, both with its heading text, the bullet linking to the id of the anchor
\* marker that follows the heading line; the table of contents is the bullets
\* in the order of the headings.
C2_TocMatchesBody ==
  Done("AssignHeadings") =>
    /\ \A i \in DOMAIN TreeNodes :
         LET node == TreeNodes[i]
             bullet == TocBullet(node)
             heading == HeadingLines(node)
         IN  /\ Len(bullet) = 1
             /\ Len(heading) = 2
             /\ \E text \in {node.heading_text[1]}, anchor \in {node.anchor[1]} :
                  /\ bullet[1] = Repeat("  ", node.depth - 1) \o "- [" \o text
                                   \o "](#" \o anchor \o ")"
                  /\ heading[1] = Repeat("#", Min(node.depth + 1, 6)) \o " " \o text
                  /\ heading[2] = AnchorMarker(anchor)
    /\ _build_toc(root_node[1]) = Flatten([i \in DOMAIN TreeNodes |-> TocBullet(TreeNodes[i])])
    /\ Len(_build_toc(root_node[1])) = Len(TreeNodes)

\* The directories met below the root of the call's filesystem.
SourceDirs == {d \in fs_at_call.dirs : d # <<>> /\ d[1] # ".."}

IsPrefix(d, p) == Len(d) < Len(p) /\ SubSeq(p, 1, Len(d)) = d

\* C4: every directory node of the tree has a child, and a file node below it;
\* a directory of the filesystem is in the tree exactly when an included file
\* lies below it, and one that is not in the tree has no heading registered,
\* no bullet in the table of contents and no heading in the body.
C4_NoEmptyDirectoryNode ==
  LET tree == root_node[1]
      nodes == TreeNodes
      leaves == Leaves(tree)
      Kept(d) == \E f \in leaves : IsPrefix(d, f)
      pruned == {d \in SourceDirs : ~Kept(d)}
      lines == {content_lines[i] : i \in DOMAIN content_lines}
  IN  /\ pc = "assign" =>
            /\ tree.is_dir /\ tree.children # <<>>
            /\ \A i \in DOMAIN nodes :
                 nodes[i].is_dir => nodes[i].children # <<>> /\ Kept(nodes[i].path)
            /\ \A d \in SourceDirs : d \in NodePaths <=> Kept(d)
      /\ pc = "write" =>
            \A d \in pruned :
              /\ \A i \in DOMAIN calls : calls[i].path # d
              /\ \A l \in lines :
                   /\ l # Repeat("#", Min(Len(d) + 1, 6)) \o " " \o as_posix(d) \o "/"
                   /\ ~StartsWith(l, Repeat("  ", Len(d) - 1) \o "- [" \o as_posix(d) \o "/](#")

\* A tree is built that holds one directory while another, whose files are
\* all rejected by extension two levels down, is left out.
C4_Witness ==
  /\ pc = "returned"
  /\ <<"b", "c", "z.txt">> \in SourceFiles
  /\ <<"a", "x.py">> \in SourceFiles
  /\ NodePaths = {<<"a">>, <<"a", "x.py">>}

\* C6: the only exceptions that leave aggregate_directory are the two
\* ValueErrors.
C6_OnlyTwoErrorsEscape ==
  pc = "raised" => error \in {NotADirectory, NoMatchingFiles}

\* C8: the tree does not depend on the order in which the system yields the
\* names of a directory: whatever orders the listings yield, _build_tree
\* returns the same tree.
C8_TreeIndependentOfScanOrder ==
  pc = "assign" =>
    \A orders \in ScanOrders(fs_at_call) :
      _build_tree(Listing(fs_at_call, orders), opts[1], <<>>, 0) = root_node

\* The paths of a sequence of nodes, in its order.
PathsOf(nodes) == [i \in DOMAIN nodes |-> nodes[i].path]

\* How many of the slugs before the j-th are the j-th.
EarlierWithSlug(slugs, j) == Cardinality({i \in 1..(j - 1) : slugs[i] = slugs[j]})

\* C10: _assign_headings registers the headings in pre-order: one register call
\* per non-root node and none for the root, a node before the nodes below it,
\* siblings in the order _build_tree gave the children; the node's heading text
\* and anchor are those of its call, and the k-th later heading text with a
\* slug s gets the anchor s-k, the first one s.
C10_PreOrderRegistration ==
  pc = "render" =>
    LET tree == root_node[1]
        nodes == TreeNodes
        slugs == [j \in DOMAIN calls |-> _slugify(calls[j].heading_text)]
    IN  /\ tree.anchor = None /\ tree.heading_text = None
        /\ Len(calls) = Len(nodes)
        /\ \A i \in DOMAIN calls :
             /\ calls[i].path = nodes[i].path
             /\ nodes[i].heading_text = Some(calls[i].heading_text)
             /\ nodes[i].anchor = Some(calls[i].anchor)
             /\ calls[i].heading_text =
                  as_posix(nodes[i].path) \o (IF nodes[i].is_dir THEN "/" ELSE "")
        /\ \A i, j \in DOMAIN calls :
             /\ i # j => calls[i].path # calls[j].path
             /\ IsPrefix(calls[i].path, calls[j].path) => i < j
        /\ PathsOf(nodes) = PathsOf(Nodes(tree_built[1]))
        /\ \A j \in DOMAIN calls :
             LET k == EarlierWithSlug(slugs, j)
             IN  calls[j].anchor = IF k = 0 THEN slugs[j] ELSE slugs[j] \o "-" \o IntToStr(k)

\* Headings are assigned to a tree with a directory above a file and with two
\* headings of one slug, the later of which gets the suffix.
C10_Witness ==
  /\ pc = "render"
  /\ \E i, j \in DOMAIN calls :
       /\ i < j
       /\ _slugify(calls[i].heading_text) = _slugify(calls[j].heading_text)
       /\ calls[j].anchor = calls[i].anchor \o "-1"
  /\ \E i \in DOMAIN TreeNodes : TreeNodes[i].children # <<>>

\* The file nodes of the tree, in pre-order.
FileNodes == SelectSeq(TreeNodes, LAMBDA n : ~n.is_dir)

\* The only included files are two files named Notes.md, in two directories
\* directly below the root, and the headings are assigned.
TwoNotes ==
  /\ pc = "render"
  /\ Len(FileNodes) = 2
  /\ \A i \in 1..2 : Len(FileNodes[i].path) = 2 /\ Name(FileNodes[i].path) = "Notes.md"
  /\ FileNodes[1].path[1] # FileNodes[2].path[1]

\* C9 as the specification states it: the file in the directory that sorts
\* first gets the anchor notes-md, the other one notes-md-1.
C9_NotesAnchorsAsStated ==
  TwoNotes =>
    /\ FileNodes[1].anchor = Some("notes-md")
    /\ FileNodes[2].anchor = Some("notes-md-1")

\* C9: the two files named Notes.md get the slugs of their paths below the
\* root, d-notesmd for the directory d, which differ, so neither gets a
\* numeric suffix; the file in the directory that sorts first comes first.
C9_NotesAnchorsArePathSlugs ==
  TwoNotes =>
    /\ \A i \in 1..2 :
         FileNodes[i].anchor = Some(Lower(FileNodes[i].path[1]) \o "-notesmd")
    /\ FileNodes[1].anchor # FileNodes[2].anchor
    /\ StrLess(Lower(FileNodes[1].path[1]), Lower(FileNodes[2].path[1]))
    /\ FileNodes[1].anchor = Some("a-notesmd") /\ FileNodes[2].anchor = Some("b-notesmd")

\* Headings are assigned to a/Notes.md and b/Notes.md, the only included
\* files, among other files that are filtered out.
C9_Witness ==
  /\ TwoNotes
  /\ PathsOf(FileNodes) = <<<<"a", "Notes.md">>, <<"b", "Notes.md">>>>
  /\ Cardinality(SourceFiles) > 2

(***************************************************************************)
(* Properties of the filter                                                *)
(***************************************************************************)

RECURSIVE Below(_, _)
\* The entries below the entry p, through directories and links to them.
Below(f, p) ==
  IF ~is_dir(f, p) THEN {}
  ELSE UNION {{Append(p, n)} \cup Below(f, Append(p, n)) : n \in NamesIn(f, resolve(f, p))}

\* The entries below the root that are no directories: files, links to files,
\* links to nothing.
FilesBelow(f) == {p \in Below(f, <<>>) : ~is_dir(f, p)}

\* Rules (1) to (6) for the file p under the options o.
FileRules(f, o, p) ==
  /\ resolve(f, p) # o.output_path
  /\ ~is_symlink(f, p) \/ o.follow_symlinks
  /\ resolve(f, p) \in DOMAIN f.files
  /\ o.ignore_spec = None \/ as_posix(p) \notin o.ignore_spec[1]
  /\ Name(p) \notin o.ignored_files /\ SubSeq(Name(p), 1, 1) # "."
  /\ Lower(Suffix(Name(p))) \in {".md"} \cup o.extensions

\* The rules for the directory d, strictly between the root and a file.
DirectoryRules(f, o, d) ==
  /\ resolve(f, d) # o.output_path
  /\ ~is_symlink(f, d) \/ o.follow_symlinks
  /\ resolve(f, d) \in f.dirs
  /\ o.ignore_spec = None
       \/ (as_posix(d) \notin o.ignore_spec[1] /\ as_posix(d) \o "/" \notin o.ignore_spec[1])
  /\ Name(d) \notin o.ignored_dirs /\ SubSeq(Name(d), 1, 1) # "."
  /\ resolve(f, d) \notin f.unlistable

\* The file p passes its rules and every directory strictly between the root
\* and p passes the directory rules.
PassesRules(f, o, p) ==
  /\ FileRules(f, o, p)
  /\ \A d \in Prefixes(p) \ {<<>>} : DirectoryRules(f, o, d)

\* The rules that bear on the root itself: it is not the output path and it
\* can be listed.
RootRules(f, o) == o.output_path # <<>> /\ <<>> \notin f.unlistable

\* The file nodes of the tree of the running call.
TreeLeaves == IF root_node = None THEN {} ELSE Leaves(root_node[1])

\* _build_tree has just returned.
TreeJustBuilt == trace = <<"Begin", "BuildTree">>

\* The example of C3: the default configuration over the four files.
IsExample == fs_at_call = PlainFs(ExampleFiles) /\ cfg = DefaultConfig

ExampleTree ==
  PathsOf(TreeNodes) = <<<<"a">>, <<"a", "x.py">>, <<"a", "y.md">>>>

\* C3 as the specification states it: a file below the root is a leaf of the
\* tree exactly when it passes rules (1) to (6) and the directories strictly
\* between the root and it pass the directory rules.
C3_LeafIffRulesAsStated ==
  TreeJustBuilt =>
    /\ \A p \in FilesBelow(fs_at_call) :
         p \in TreeLeaves <=> PassesRules(fs_at_call, opts[1], p)
    /\ IsExample => ExampleTree

\* C3: a file below the root is a leaf of the tree exactly when the root is
\* not the output path and can be listed, the file passes rules (1) to (6) and
\* the directories strictly between the root and it pass the directory rules;
\* the tree has no other leaf, and the example's tree is a/, a/x.py, a/y.md.
C3_LeafIffRules ==
  TreeJustBuilt =>
    /\ \A p \in FilesBelow(fs_at_call) :
         p \in TreeLeaves <=>
           RootRules(fs_at_call, opts[1]) /\ PassesRules(fs_at_call, opts[1], p)
    /\ TreeLeaves \subseteq FilesBelow(fs_at_call)
    /\ IsExample => ExampleTree

\* The tree of the example has just been built.
C3_Witness == TreeJustBuilt /\ IsExample /\ ExampleTree

(***************************************************************************)
(* Properties of a call and of a pair of calls                             *)
(***************************************************************************)

\* Whether some file below the root of f passes the filter under o.
SomeFileSurvives(f, o) ==
  RootRules(f, o) /\ \E p \in FilesBelow(f) : PassesRules(f, o, p)

\* C5: the two ValueErrors are distinct; the call raises the first exactly
\* when the input is no directory, before any traversal, and the second
\* exactly when the input is a directory below which no file survives the
\* filter, right after the traversal; in both cases nothing was rendered and
\* the filesystem, the output file with it, is as the call found it.
C5_TwoFatalOutcomes ==
  /\ NotADirectory # NoMatchingFiles
  /\ (pc = "raised" /\ error = NotADirectory) =>
       /\ trace = <<"Begin">>
       /\ ~is_dir(fs_at_call, <<>>)
       /\ root_node = None /\ content_lines = <<>>
       /\ fs = fs_at_call
  /\ (pc = "raised" /\ error = NoMatchingFiles) =>
       /\ trace = <<"Begin", "BuildTree">>
       /\ is_dir(fs_at_call, <<>>)
       /\ ~SomeFileSurvives(fs_at_call, opts[1])
       /\ content_lines = <<>> /\ calls = <<>>
       /\ fs = fs_at_call
  /\ (trace # <<>> /\ ~is_dir(fs_at_call, <<>>)) =>
       pc = "raised" /\ error = NotADirectory
  /\ (TreeJustBuilt /\ ~SomeFileSurvives(fs_at_call, opts[1])) =>
       pc = "raised" /\ error = NoMatchingFiles

\* A call on a directory that holds files, none of which survives the filter,
\* has raised the empty-result error.
C5_Witness ==
  /\ pc = "raised"
  /\ error = NoMatchingFiles
  /\ Cardinality(SourceFiles) >= 2

\* C7: a second call with the same arguments on the filesystem the first one
\* left, nothing else having changed it, ends as the first did; when both
\* return, the tree with its anchors and the document of the second are those
\* of the first, and the output file holds that document. The listings of the
\* second call yield the names in orders of their own.
C7_SecondRunEqualsFirst ==
  (second /\ ~vanished /\ pc \in {"returned", "raised"}) =>
    \/ /\ pc = "returned"
       /\ Len(written) = 2
       /\ written[2] = written[1]
       /\ fs.files[opts[1].output_path] = written[1].document
       /\ opts[1].output_path \notin TreeLeaves
    \/ /\ pc = "raised"
       /\ Len(written) = 0

\* Some directory of f holds two names that differ only in letter case.
CaseTwins(f) ==
  \E d \in ScanDirs(f) :
    \E n, m \in NamesIn(f, d) : n # m /\ Lower(n) = Lower(m)

\* C7 where no directory holds two names that differ only in letter case: the
\* second call ends as the first did and writes the same document, whatever
\* orders the listings of the two calls yield.
C7_EqualWithoutCaseTwins == ~CaseTwins(fs) => C7_SecondRunEqualsFirst

====
